---- MODULE Spec2Model ----
(***************************************************************************)
(* A model of the unraid command-line client: the configuration store      *)
(* (src/src/config.rs, src/src/commands/config.rs), the resolution of the  *)
(* server endpoint from command line, environment and store                *)
(* (ResolvedConfig::resolve), the decoding of a GraphQL response envelope  *)
(* (src/src/client.rs), the resolution of a container name to its id and   *)
(* the docker commands with the requests they send                         *)
(* (src/src/commands/docker.rs), and the run of one command from main      *)
(* (src/src/main.rs).                                                      *)
(*                                                                         *)
(* Option<T> is a sequence of length at most one: None is <<>> and Some(x) *)
(* is <<x>>.  Result<T> is a record with the field ok and either value or  *)
(* error.  A HashMap is a function on its set of keys.  Opaque strings     *)
(* (profile names, urls, api keys) are TLA+ strings; strings the code      *)
(* looks inside (container aliases, error messages that are joined) are    *)
(* sequences of one-character strings.                                     *)
(***************************************************************************)
EXTENDS Naturals, Sequences, FiniteSets, TLC

VARIABLES
    file,         \* the file system at Config::config_path()
    config,       \* the Config value in memory
    call,         \* the last operation on the store: arguments, the Config it acted on, its return value
    cli,          \* the arguments of resolve: server, url, api_key (the fields of main's Cli)
    env,          \* the process environment: UNRAID_SERVER, UNRAID_URL, UNRAID_API_KEY
    resolved,     \* what resolve returned, with the arguments it was given
    response,     \* the GraphQL response envelope handed to process_response
    processed,    \* what process_response returned
    containers,   \* the container list handed to find_container_id
    name,         \* the container name handed to find_container_id
    found,        \* what find_container_id returned
    cmd,          \* the subcommand main was started with
    pc,           \* where the run of the command stands
    exit,         \* what main returned
    sent,         \* the requests the client has sent, in order
    replies,      \* what execute returned for the requests answered so far, in order
    shown,        \* the containers filter_by_state returned
    input,        \* the string handed to truncate
    max_len,      \* the limit handed to truncate
    truncated     \* what truncate returned

vars == <<file, config, call, cli, env, resolved,
          response, processed, containers, name, found,
          cmd, pc, exit, sent, replies, shown, input, max_len, truncated>>

storeVars   == <<file, config, call>>
resolveVars == <<cli, env, resolved>>
clientVars  == <<response, processed>>
findVars    == <<containers, name, found>>
mainVars    == <<cmd, pc, exit>>
dockerVars  == <<sent, replies, shown>>
truncateVars == <<input, max_len, truncated>>

----------------------------------------------------------------------------
(* Bounds *)

MaxNames == 2        \* profile names in play
MaxContainers == 2   \* containers in a fetched list
MaxErrors == 2       \* errors in a response envelope
MaxMsgLen == 2       \* characters in an error message
MaxStrLen == 41      \* characters in a string handed to truncate

NameTable == <<"tower", "backup", "nas", "media">>
Names == {NameTable[i] : i \in 1..MaxNames}

----------------------------------------------------------------------------
(* Option and Result *)

None == <<>>
Some(x) == <<x>>
Option(S) == {None} \cup {Some(x) : x \in S}
IsSome(o) == o # None
Unwrap(o) == o[1]
\* Option::or
Or(a, b) == IF IsSome(a) THEN a ELSE b
\* Option::unwrap_or
UnwrapOr(o, d) == IF IsSome(o) THEN o[1] ELSE d

Ok(v) == [ok |-> TRUE, value |-> v]
Err(e) == [ok |-> FALSE, error |-> e]
Unit == "()"

----------------------------------------------------------------------------
(* The configuration store: src/src/config.rs *)

ServerConfig(url, api_key) == [url |-> url, api_key |-> api_key]
\* the server configurations in play
ServerConfigs ==
    {ServerConfig("https://192.168.1.100", "key-tower"),
     ServerConfig("https://192.168.1.101", "key-backup")}

\* Config::default(): no default, no servers
ConfigDefault == [default |-> None, servers |-> <<>>]

\* every Config over the names, urls and keys in play
ServerMaps == UNION {[S -> ServerConfigs] : S \in SUBSET Names}
Configs == [default : Option(Names), servers : ServerMaps]

\* toml::to_string_pretty(self): a None default writes no key; the servers
\* table is written as it is
toml_to_string_pretty(c) ==
    (IF IsSome(c.default) THEN "default" :> Unwrap(c.default) ELSE <<>>)
        @@ ("servers" :> c.servers)

\* toml::from_str with #[serde(default)] on both fields: a missing key
\* reads as None / the empty map
toml_from_str(doc) ==
    [default |-> IF "default" \in DOMAIN doc THEN Some(doc["default"]) ELSE None,
     servers |-> IF "servers" \in DOMAIN doc THEN doc["servers"] ELSE <<>>]

\* the states of the file system at the config path
NoConfigDir == [kind |-> "nodir"]        \* ProjectDirs::from yields None
Absent      == [kind |-> "absent"]       \* path.exists() is false
Unreadable  == [kind |-> "unreadable"]   \* fs::read_to_string fails
Malformed   == [kind |-> "text", valid |-> FALSE]   \* toml::from_str fails
Text(doc)   == [kind |-> "text", valid |-> TRUE, doc |-> doc]

\* Config::config_path
config_path(f) ==
    IF f.kind = "nodir" THEN Err("Failed to determine config directory")
    ELSE Ok("config.toml")

\* Config::load
load(f) ==
    IF ~config_path(f).ok THEN config_path(f)
    ELSE IF f.kind = "absent" THEN Ok(ConfigDefault)
    ELSE IF f.kind = "unreadable" THEN Err("Failed to read config file")
    ELSE IF ~f.valid THEN Err("Failed to parse config file")
    ELSE Ok(toml_from_str(f.doc))

\* Config::save: the result and the file afterwards; write_ok says whether
\* create_dir_all and fs::write succeed
save(c, f, write_ok) ==
    IF ~config_path(f).ok THEN [ret |-> config_path(f), file |-> f]
    ELSE IF ~write_ok THEN [ret |-> Err("Failed to write config file"), file |-> f]
    ELSE [ret |-> Ok(Unit), file |-> Text(toml_to_string_pretty(c))]

\* get_server with the stored default taking precedence over the given name
get_server_DefaultFirst(c, n) ==
    LET server_name == Or(c.default, n)
    IN  IF ~IsSome(server_name) THEN None
        ELSE IF Unwrap(server_name) \in DOMAIN c.servers
             THEN Some(c.servers[Unwrap(server_name)])
             ELSE None

\* get_server falling back to the stored default when the given name is unknown
get_server_FallsBack(c, n) ==
    IF IsSome(n) /\ Unwrap(n) \in DOMAIN c.servers THEN Some(c.servers[Unwrap(n)])
    ELSE IF IsSome(c.default) /\ Unwrap(c.default) \in DOMAIN c.servers
         THEN Some(c.servers[Unwrap(c.default)])
         ELSE None

\* Config::get_server
get_server(c, n) ==
    LET server_name == Or(n, c.default)
    IN  IF ~IsSome(server_name) THEN None
        ELSE IF Unwrap(server_name) \in DOMAIN c.servers
             THEN Some(c.servers[Unwrap(server_name)])
             ELSE None

\* HashMap::insert
Insert(m, k, v) == [x \in DOMAIN m \cup {k} |-> IF x = k THEN v ELSE m[x]]
\* HashMap::remove, the map afterwards
Remove(m, k) == [x \in DOMAIN m \ {k} |-> m[x]]

\* add_server keeping a profile that is there already (insert only if absent)
add_server_KeepsExisting(c, n, url, api_key) ==
    IF n \in DOMAIN c.servers THEN c
    ELSE [c EXCEPT !.servers = Insert(c.servers, n, ServerConfig(url, api_key))]

\* Config::add_server
add_server(c, n, url, api_key) ==
    [c EXCEPT !.servers = Insert(c.servers, n, ServerConfig(url, api_key))]

\* remove_server without the clearing of the default (lines 72-74 left out)
remove_server_config_KeepsDefault(c, n) ==
    [default |-> c.default, servers |-> Remove(c.servers, n)]

\* remove_server clearing the default whenever a profile is removed
remove_server_config_AlwaysClears(c, n) ==
    [default |-> IF n \in DOMAIN c.servers THEN None ELSE c.default,
     servers |-> Remove(c.servers, n)]

\* Config::remove_server: the Config afterwards
remove_server_config(c, n) ==
    [default |-> IF c.default = Some(n) THEN None ELSE c.default,
     servers |-> Remove(c.servers, n)]

\* Config::remove_server: the returned bool
remove_server_removed(c, n) == n \in DOMAIN c.servers

\* set_default assigning the default before the check of the name
set_default_config_AssignsFirst(c, n) == [c EXCEPT !.default = Some(n)]

\* Config::set_default: the Config afterwards
set_default_config(c, n) ==
    IF n \notin DOMAIN c.servers THEN c
    ELSE [c EXCEPT !.default = Some(n)]

\* set_default returning Ok for a name without a profile too
set_default_ret_AlwaysOk(c, n) == Ok(Unit)

\* Config::set_default: the returned Result
set_default_ret(c, n) ==
    IF n \notin DOMAIN c.servers
    THEN Err(<<"Server '", n, "' not found in configuration">>)
    ELSE Ok(Unit)

----------------------------------------------------------------------------
(* Operations on a Config in memory, as a caller of the type runs them *)

AddServer(n, url, api_key) ==
    /\ config' = add_server(config, n, url, api_key)
    /\ call' = [op |-> "add_server", name |-> n, url |-> url, api_key |-> api_key,
                before |-> config, ret |-> Unit]
    /\ UNCHANGED <<file, resolveVars, clientVars, findVars, mainVars, dockerVars,
                   truncateVars>>

RemoveServer(n) ==
    /\ config' = remove_server_config(config, n)
    /\ call' = [op |-> "remove_server", name |-> n, before |-> config,
                ret |-> remove_server_removed(config, n)]
    /\ UNCHANGED <<file, resolveVars, clientVars, findVars, mainVars, dockerVars,
                   truncateVars>>

SetDefault(n) ==
    /\ config' = set_default_config(config, n)
    /\ call' = [op |-> "set_default", name |-> n, before |-> config,
                ret |-> set_default_ret(config, n)]
    /\ UNCHANGED <<file, resolveVars, clientVars, findVars, mainVars, dockerVars,
                   truncateVars>>

----------------------------------------------------------------------------
(* The config commands: src/src/commands/config.rs.  Each is one run of    *)
(* the program: it loads the file into a fresh Config, acts, and saves.    *)

\* what a command leaves when Config::load fails
LoadFailed(op, n, loaded) ==
    /\ call' = [op |-> op, name |-> n, before |-> None, ret |-> loaded,
                file_before |-> file, writes |-> 0]
    /\ UNCHANGED <<file, config, resolveVars, clientVars, findVars, dockerVars,
                   truncateVars>>

\* commands::config::add_server
CmdAddServer(n, url, api_key, write_ok) ==
    LET loaded == load(file) IN
    IF ~loaded.ok THEN LoadFailed("config add", n, loaded)
    ELSE
        LET is_first == DOMAIN loaded.value.servers = {}
            added    == add_server(loaded.value, n, url, api_key)
            c        == IF is_first THEN [added EXCEPT !.default = Some(n)] ELSE added
            saved    == save(c, file, write_ok)
        IN  /\ config' = c
            /\ file' = saved.file
            /\ call' = [op |-> "config add", name |-> n, url |-> url,
                        api_key |-> api_key, before |-> Some(loaded.value),
                        ret |-> saved.ret, file_before |-> file, writes |-> 1]
            /\ UNCHANGED <<resolveVars, clientVars, findVars, dockerVars, truncateVars>>

\* commands::config::remove_server
CmdRemoveServer(n, write_ok) ==
    LET loaded == load(file) IN
    IF ~loaded.ok THEN LoadFailed("config remove", n, loaded)
    ELSE
        LET c     == remove_server_config(loaded.value, n)
            saved == save(c, file, write_ok)
        IN  /\ config' = c
            /\ UNCHANGED <<resolveVars, clientVars, findVars, dockerVars, truncateVars>>
            /\ IF remove_server_removed(loaded.value, n)
               THEN /\ file' = saved.file
                    /\ call' = [op |-> "config remove", name |-> n,
                                before |-> Some(loaded.value), ret |-> saved.ret,
                                file_before |-> file, writes |-> 1]
               ELSE /\ file' = file
                    /\ call' = [op |-> "config remove", name |-> n,
                                before |-> Some(loaded.value), ret |-> Ok(Unit),
                                file_before |-> file, writes |-> 0]

\* commands::config::set_default
CmdSetDefault(n, write_ok) ==
    LET loaded == load(file) IN
    IF ~loaded.ok THEN LoadFailed("config default", n, loaded)
    ELSE
        LET c     == set_default_config(loaded.value, n)
            ret   == set_default_ret(loaded.value, n)
            saved == save(c, file, write_ok)
        IN  /\ config' = c
            /\ UNCHANGED <<resolveVars, clientVars, findVars, dockerVars, truncateVars>>
            /\ IF ret.ok
               THEN /\ file' = saved.file
                    /\ call' = [op |-> "config default", name |-> n,
                                before |-> Some(loaded.value), ret |-> saved.ret,
                                file_before |-> file, writes |-> 1]
               ELSE /\ file' = file
                    /\ call' = [op |-> "config default", name |-> n,
                                before |-> Some(loaded.value), ret |-> ret,
                                file_before |-> file, writes |-> 0]

\* commands::config::list_servers
CmdListServers ==
    LET loaded == load(file) IN
    IF ~loaded.ok THEN LoadFailed("config list", None, loaded)
    ELSE /\ config' = loaded.value
         /\ call' = [op |-> "config list", name |-> None,
                     before |-> Some(loaded.value), ret |-> Ok(Unit),
                     file_before |-> file, writes |-> 0]
         /\ UNCHANGED <<file, resolveVars, clientVars, findVars, dockerVars,
                        truncateVars>>

----------------------------------------------------------------------------
(* The config resolver: ResolvedConfig::resolve, src/src/config.rs *)

ResolvedConfig(url, api_key) == [url |-> url, api_key |-> api_key]

NoServerConfigured ==
    "No server configured. Use 'unraid config add <name>' to add a server, or set UNRAID_URL and UNRAID_API_KEY environment variables."

\* the third tier of resolve (lines 124-140): the profile from the config file
FromConfigFile(cli_server, cli_url, cli_api_key, e, f) ==
    LET loaded == load(f) IN
    IF ~loaded.ok THEN [ret |-> loaded, loaded |-> TRUE]
    ELSE
    LET server == get_server(loaded.value, Or(cli_server, e.UNRAID_SERVER)) IN
    IF IsSome(server)
    THEN [ret |-> Ok(ResolvedConfig(UnwrapOr(cli_url, Unwrap(server).url),
                                    UnwrapOr(cli_api_key, Unwrap(server).api_key))),
          loaded |-> TRUE]
    ELSE [ret |-> Err(NoServerConfigured), loaded |-> TRUE]

\* resolve without the return on a complete pair of arguments (lines 104-109 left out)
resolve_NoCliReturn(cli_server, cli_url, cli_api_key, e, f) ==
    IF IsSome(e.UNRAID_URL) /\ IsSome(e.UNRAID_API_KEY)
    THEN [ret |-> Ok(ResolvedConfig(UnwrapOr(cli_url, Unwrap(e.UNRAID_URL)),
                                    UnwrapOr(cli_api_key, Unwrap(e.UNRAID_API_KEY)))),
          loaded |-> FALSE]
    ELSE FromConfigFile(cli_server, cli_url, cli_api_key, e, f)

\* resolve returning the environment pair as it is, without the arguments' override
resolve_EnvVerbatim(cli_server, cli_url, cli_api_key, e, f) ==
    IF IsSome(cli_url) /\ IsSome(cli_api_key)
    THEN [ret |-> Ok(ResolvedConfig(Unwrap(cli_url), Unwrap(cli_api_key))),
          loaded |-> FALSE]
    ELSE IF IsSome(e.UNRAID_URL) /\ IsSome(e.UNRAID_API_KEY)
    THEN [ret |-> Ok(ResolvedConfig(Unwrap(e.UNRAID_URL), Unwrap(e.UNRAID_API_KEY))),
          loaded |-> FALSE]
    ELSE FromConfigFile(cli_server, cli_url, cli_api_key, e, f)

\* resolve loading the config file before it looks at the environment
resolve_LoadsFirst(cli_server, cli_url, cli_api_key, e, f) ==
    IF IsSome(cli_url) /\ IsSome(cli_api_key)
    THEN [ret |-> Ok(ResolvedConfig(Unwrap(cli_url), Unwrap(cli_api_key))),
          loaded |-> FALSE]
    ELSE IF ~load(f).ok THEN [ret |-> load(f), loaded |-> TRUE]
    ELSE IF IsSome(e.UNRAID_URL) /\ IsSome(e.UNRAID_API_KEY)
    THEN [ret |-> Ok(ResolvedConfig(UnwrapOr(cli_url, Unwrap(e.UNRAID_URL)),
                                    UnwrapOr(cli_api_key, Unwrap(e.UNRAID_API_KEY)))),
          loaded |-> TRUE]
    ELSE FromConfigFile(cli_server, cli_url, cli_api_key, e, f)

\* ResolvedConfig::resolve(cli_server, cli_url, cli_api_key) in the
\* environment e with the file system f.  ret is the returned Result;
\* loaded says whether control reached Config::load.
resolve(cli_server, cli_url, cli_api_key, e, f) ==
    IF IsSome(cli_url) /\ IsSome(cli_api_key)
    THEN [ret |-> Ok(ResolvedConfig(Unwrap(cli_url), Unwrap(cli_api_key))),
          loaded |-> FALSE]
    ELSE
    LET env_url     == e.UNRAID_URL
        env_api_key == e.UNRAID_API_KEY
        env_server  == e.UNRAID_SERVER
    IN
    IF IsSome(env_url) /\ IsSome(env_api_key)
    THEN [ret |-> Ok(ResolvedConfig(UnwrapOr(cli_url, Unwrap(env_url)),
                                    UnwrapOr(cli_api_key, Unwrap(env_api_key)))),
          loaded |-> FALSE]
    ELSE
    LET loaded == load(f) IN
    IF ~loaded.ok THEN [ret |-> loaded, loaded |-> TRUE]
    ELSE
    LET server_name == Or(cli_server, env_server)
        server      == get_server(loaded.value, server_name)
    IN
    IF IsSome(server)
    THEN [ret |-> Ok(ResolvedConfig(UnwrapOr(cli_url, Unwrap(server).url),
                                    UnwrapOr(cli_api_key, Unwrap(server).api_key))),
          loaded |-> TRUE]
    ELSE [ret |-> Err(NoServerConfigured), loaded |-> TRUE]

\* a call of resolve with the arguments cli
Resolve ==
    /\ resolved = None
    /\ resolved' = Some([args |-> cli]
                        @@ resolve(cli.server, cli.url, cli.api_key, env, file))
    /\ UNCHANGED <<cli, env, storeVars, clientVars, findVars, mainVars, dockerVars,
                   truncateVars>>

----------------------------------------------------------------------------
(* The API client: UnraidClient::process_response, src/src/client.rs *)

GraphQLErrorsPrefix ==
    <<"G", "r", "a", "p", "h", "Q", "L", " ", "e", "r", "r", "o", "r", "s", ":", " ">>
CommaSpace == <<",", " ">>
NoDataReturned ==
    <<"N", "o", " ", "d", "a", "t", "a", " ", "r", "e", "t", "u", "r", "n", "e", "d",
      " ", "f", "r", "o", "m", " ", "G", "r", "a", "p", "h", "Q", "L", " ",
      "q", "u", "e", "r", "y">>

\* [String]::join(sep)
RECURSIVE join(_, _)
join(strs, sep) ==
    IF strs = <<>> THEN <<>>
    ELSE IF Len(strs) = 1 THEN strs[1]
    ELSE strs[1] \o sep \o join(Tail(strs), sep)

\* process_response returning the data whenever it is present
process_response_DataFirst(r) ==
    IF IsSome(r.data) THEN Ok(Unwrap(r.data))
    ELSE IF IsSome(r.errors) /\ Unwrap(r.errors) # <<>>
    THEN Err(GraphQLErrorsPrefix
             \o join([i \in 1..Len(Unwrap(r.errors)) |-> Unwrap(r.errors)[i].message],
                     CommaSpace))
    ELSE Err(NoDataReturned)

\* UnraidClient::process_response
process_response(r) ==
    IF IsSome(r.errors) /\ Unwrap(r.errors) # <<>>
    THEN LET errors         == Unwrap(r.errors)
             error_messages == [i \in 1..Len(errors) |-> errors[i].message]
         IN  Err(GraphQLErrorsPrefix \o join(error_messages, CommaSpace))
    ELSE IF IsSome(r.data) THEN Ok(Unwrap(r.data))
    ELSE Err(NoDataReturned)

\* a call of process_response on the envelope response
ProcessResponse ==
    /\ processed = None
    /\ processed' = Some(process_response(response))
    /\ UNCHANGED <<response, storeVars, resolveVars, findVars, mainVars, dockerVars,
                   truncateVars>>

----------------------------------------------------------------------------
(* The container resolver: find_container_id, src/src/commands/docker.rs *)

\* char::to_lowercase on the characters in play
LowerChar(ch) ==
    CASE ch = "A" -> "a"
      [] ch = "B" -> "b"
      [] ch = "C" -> "c"
      [] OTHER -> ch

\* str::to_lowercase
to_lowercase(str) == [i \in 1..Len(str) |-> LowerChar(str[i])]

\* str::trim_start_matches(ch): every leading ch is removed
RECURSIVE trim_start_matches(_, _)
trim_start_matches(str, ch) ==
    IF str # <<>> /\ Head(str) = ch THEN trim_start_matches(Tail(str), ch)
    ELSE str

\* the inner loop looking at the first alias only
names_match_FirstOnly(names, j, name_lower) ==
    /\ j = 1 /\ Len(names) >= 1
    /\ to_lowercase(trim_start_matches(names[1], "/")) = name_lower

\* the inner loop of find_container_id from alias j on: does an alias match
RECURSIVE names_match(_, _, _)
names_match(names, j, name_lower) ==
    IF j > Len(names) THEN FALSE
    ELSE LET clean == to_lowercase(trim_start_matches(names[j], "/"))
         IN  IF clean = name_lower THEN TRUE
             ELSE names_match(names, j + 1, name_lower)

ContainerNotFound(n) ==
    <<"Container '", n,
      "' not found. Use 'docker list-containers --all' to see available containers.">>

\* the outer loop of find_container_id from container i on
RECURSIVE find_from(_, _, _)
find_from(cs, i, n) ==
    IF i > Len(cs) THEN Err(ContainerNotFound(n))
    ELSE IF names_match(cs[i].names, 1, to_lowercase(n)) THEN Ok(cs[i].id)
    ELSE find_from(cs, i + 1, n)

\* find_container_id
find_container_id(cs, n) == find_from(cs, 1, n)

\* a call of find_container_id on the list containers with the input name
FindContainerId ==
    /\ found = None
    /\ found' = Some(find_container_id(containers, name))
    /\ UNCHANGED <<containers, name, storeVars, resolveVars, clientVars, mainVars,
                   dockerVars, truncateVars>>

----------------------------------------------------------------------------
(* The docker commands: src/src/commands/docker.rs, run from main,         *)
(* src/src/main.rs.  A request is one call of UnraidClient::execute: the   *)
(* client sends it and waits; the server's reply, or the failure to get    *)
(* one, is the environment's choice.                                       *)

\* ContainerState
RUNNING == [tag |-> "RUNNING"]
PAUSED == [tag |-> "PAUSED"]
EXITED == [tag |-> "EXITED"]
Other(s) == [tag |-> "Other", value |-> s]

\* a container of a fetched list
Container(id, names, state) == [id |-> id, names |-> names, state |-> state]

\* the body Q::build_query(variables) of a request: the query and its id
\* variable; GetDockerContainers has no variables
Request(query, id) == [query |-> query, id |-> id]
GetDockerContainers == Request("GetDockerContainers", None)
StartDockerContainer(id) == Request("StartDockerContainer", Some(id))
StopDockerContainer(id) == Request("StopDockerContainer", Some(id))
UpdateDockerContainer(id) == Request("UpdateDockerContainer", Some(id))

\* what comes back for a request: send() fails (no connection, timeout),
\* json() fails, or an envelope is decoded
SendFailed == [kind |-> "send failed"]
Unparsable == [kind |-> "unparsable"]
Envelope(r) == [kind |-> "envelope", body |-> r]

\* UnraidClient::execute, given what came back
execute(reply) ==
    IF reply.kind = "send failed" THEN Err("Failed to send GraphQL request")
    ELSE IF reply.kind = "unparsable" THEN Err("Failed to parse GraphQL response")
    ELSE process_response(reply.body)

\* filter_by_state dropping the exited containers instead of keeping the running ones
filter_by_state_DropsExited(cs, show_all) ==
    IF show_all THEN cs
    ELSE SelectSeq(cs, LAMBDA c : c.state # EXITED)

\* filter_by_state
filter_by_state(cs, show_all) ==
    IF show_all THEN cs
    ELSE SelectSeq(cs, LAMBDA c : c.state = RUNNING)

\* a call of filter_by_state on the list containers with the flag of cmd
FilterByState ==
    /\ shown = None
    /\ shown' = Some(filter_by_state(containers, cmd.all))
    /\ UNCHANGED <<cmd, pc, exit, sent, replies, containers, name, found, storeVars,
                   resolveVars, clientVars, truncateVars>>

\* char::len_utf8 on the characters in play: the bytes of a character.
\* "U+00E9" and "U+65E5" stand for the one character with that code point.
len_utf8(ch) ==
    CASE ch = "U+00E9" -> 2
      [] ch = "U+65E5" -> 3
      [] OTHER -> 1

\* str::len: the length in bytes
RECURSIVE str_len(_)
str_len(str) == IF str = <<>> THEN 0 ELSE len_utf8(Head(str)) + str_len(Tail(str))

\* &s[..end]: the characters in the first end bytes, Some of them; None when
\* the slice panics because end is past the string or inside a character
RECURSIVE slice_to(_, _)
slice_to(str, end) ==
    IF end = 0 THEN Some(<<>>)
    ELSE IF str = <<>> \/ len_utf8(Head(str)) > end THEN None
    ELSE LET rest == slice_to(Tail(str), end - len_utf8(Head(str)))
         IN  IF rest = None THEN None ELSE Some(<<Head(str)>> \o Unwrap(rest))

\* what a call of truncate comes to: the String returned, or a panic
Returned(v) == [panicked |-> FALSE, value |-> v]
Panicked == [panicked |-> TRUE]
Ellipsis == <<".", ".", ".">>

\* truncate; max - 3 below zero panics as an overflow in a debug build and
\* wraps to an index past the string, where the slice panics, in a release
\* build
truncate(str, max) ==
    IF str_len(str) <= max THEN Returned(str)
    ELSE IF max < 3 THEN Panicked
    ELSE LET head == slice_to(str, max - 3)
         IN  IF head = None THEN Panicked ELSE Returned(Unwrap(head) \o Ellipsis)

\* a call of truncate on input with the limit max_len
Truncate ==
    /\ truncated = None
    /\ truncated' = Some(truncate(input, max_len))
    /\ UNCHANGED <<input, max_len, storeVars, resolveVars, clientVars, findVars,
                   mainVars, dockerVars>>

\* the subcommands
ConfigKinds == {"config add", "config remove", "config default", "config list"}
MutationKinds == {"start", "stop", "update"}
DockerKinds == {"list-containers", "restart"} \cup MutationKinds

\* handle_docker_command: the function a subcommand is dispatched to
handle_docker_command(c) ==
    IF c.kind = "list-containers" THEN "list_containers" ELSE "resolve_container_id"

\* the step that follows resolve_container_id in the function that called it
after_resolve(c) ==
    IF c.kind = "restart" THEN "restart_container" ELSE "mutate_container"

\* the mutation carrying the id of the first container instead of the resolved one
mutation_FirstId(kind, id) ==
    CASE kind = "start" -> StartDockerContainer("id-1")
      [] kind = "stop" -> StopDockerContainer("id-1")
      [] kind = "update" -> UpdateDockerContainer("id-1")

\* the mutation start_container, stop_container and update_container send
mutation(kind, id) ==
    CASE kind = "start" -> StartDockerContainer(id)
      [] kind = "stop" -> StopDockerContainer(id)
      [] kind = "update" -> UpdateDockerContainer(id)

\* main returns ret
Return(ret) == pc' = "exit" /\ exit' = Some(ret)

\* the client sending request a second time before it waits
Send_Twice(request, await) ==
    /\ sent' = Append(Append(sent, request), request)
    /\ pc' = await
    /\ UNCHANGED <<cmd, exit, replies, shown, storeVars, resolveVars, clientVars,
                   findVars, truncateVars>>

\* the client sends request and waits for what comes back
Send(request, await) ==
    /\ sent' = Append(sent, request)
    /\ pc' = await
    /\ UNCHANGED <<cmd, exit, replies, shown, storeVars, resolveVars, clientVars,
                   findVars, truncateVars>>

\* main: a config subcommand goes to handle_config_command and its result
\* is main's
ConfigReturn ==
    /\ pc = "main"
    /\ Return(call'.ret)
    /\ UNCHANGED cmd

MainConfigAdd(write_ok) ==
    /\ cmd.kind = "config add"
    /\ CmdAddServer(cmd.name, cmd.url, cmd.api_key, write_ok)
    /\ ConfigReturn

MainConfigRemove(write_ok) ==
    /\ cmd.kind = "config remove"
    /\ CmdRemoveServer(cmd.name, write_ok)
    /\ ConfigReturn

MainConfigDefault(write_ok) ==
    /\ cmd.kind = "config default"
    /\ CmdSetDefault(cmd.name, write_ok)
    /\ ConfigReturn

MainConfigList ==
    /\ cmd.kind = "config list"
    /\ CmdListServers
    /\ ConfigReturn

\* main: a docker subcommand resolves the endpoint, builds the client and
\* goes to handle_docker_command; built says whether Client::builder succeeds
MainDocker(built) ==
    /\ pc = "main"
    /\ cmd.kind \in DockerKinds
    /\ LET r == resolve(cli.server, cli.url, cli.api_key, env, file)
       IN  /\ resolved' = Some([args |-> cli] @@ r)
           /\ IF ~r.ret.ok THEN Return(r.ret)
              ELSE IF ~built THEN Return(Err("Failed to create HTTP client"))
              ELSE pc' = handle_docker_command(cmd) /\ exit' = exit
    /\ UNCHANGED <<cmd, cli, env, storeVars, clientVars, findVars, dockerVars,
                   truncateVars>>

\* resolve_container_id sends the list query
ResolveContainerIdSend ==
    /\ pc = "resolve_container_id"
    /\ Send(GetDockerContainers, "resolve_container_id.await")

\* resolve_container_id gets its answer and looks the name up; a failure of
\* either goes out of the calling function through its ?
ResolveContainerIdReceive(reply) ==
    /\ pc = "resolve_container_id.await"
    /\ LET r == execute(reply) IN
       /\ replies' = Append(replies, r)
       /\ IF ~r.ok
          THEN Return(r) /\ UNCHANGED findVars
          ELSE LET id == find_container_id(r.value, cmd.name)
               IN  /\ containers' = r.value
                   /\ name' = cmd.name
                   /\ found' = Some(id)
                   /\ IF id.ok THEN pc' = after_resolve(cmd) /\ exit' = exit
                      ELSE Return(id)
    /\ UNCHANGED <<cmd, sent, shown, storeVars, resolveVars, clientVars, truncateVars>>

\* start_container, stop_container, update_container: the one mutation,
\* with the resolved id
MutateContainerSend ==
    /\ pc = "mutate_container"
    /\ Send(mutation(cmd.kind, Unwrap(found).value), "mutate_container.await")

MutateContainerReceive(reply) ==
    /\ pc = "mutate_container.await"
    /\ LET r == execute(reply) IN
       /\ replies' = Append(replies, r)
       /\ Return(IF r.ok THEN Ok(Unit) ELSE r)
    /\ UNCHANGED <<cmd, sent, shown, storeVars, resolveVars, clientVars, findVars,
                   truncateVars>>

\* restart_container: the stop mutation with the resolved id
RestartStopSend ==
    /\ pc = "restart_container"
    /\ Send(StopDockerContainer(Unwrap(found).value), "restart_container.stop.await")

\* restart_container going on to the start whatever the stop returned
RestartStopReceive_IgnoresFailure(reply) ==
    /\ pc = "restart_container.stop.await"
    /\ replies' = Append(replies, execute(reply))
    /\ pc' = "restart_container.start" /\ exit' = exit
    /\ UNCHANGED <<cmd, sent, shown, storeVars, resolveVars, clientVars, findVars,
                   truncateVars>>

\* restart_container: the stop has returned; its failure is restart's
RestartStopReceive(reply) ==
    /\ pc = "restart_container.stop.await"
    /\ LET r == execute(reply) IN
       /\ replies' = Append(replies, r)
       /\ IF r.ok THEN pc' = "restart_container.start" /\ exit' = exit
          ELSE Return(r)
    /\ UNCHANGED <<cmd, sent, shown, storeVars, resolveVars, clientVars, findVars,
                   truncateVars>>

\* restart_container: the start mutation with the same id
RestartStartSend ==
    /\ pc = "restart_container.start"
    /\ Send(StartDockerContainer(Unwrap(found).value), "restart_container.start.await")

RestartStartReceive(reply) ==
    /\ pc = "restart_container.start.await"
    /\ LET r == execute(reply) IN
       /\ replies' = Append(replies, r)
       /\ Return(IF r.ok THEN Ok(Unit) ELSE r)
    /\ UNCHANGED <<cmd, sent, shown, storeVars, resolveVars, clientVars, findVars,
                   truncateVars>>

\* list_containers sends the list query
ListContainersSend ==
    /\ pc = "list_containers"
    /\ Send(GetDockerContainers, "list_containers.await")

\* list_containers gets its answer, filters it and prints the rows
ListContainersReceive(reply) ==
    /\ pc = "list_containers.await"
    /\ LET r == execute(reply) IN
       /\ replies' = Append(replies, r)
       /\ IF ~r.ok
          THEN Return(r) /\ UNCHANGED <<shown, containers>>
          ELSE /\ containers' = r.value
               /\ shown' = Some(filter_by_state(r.value, cmd.all))
               /\ Return(Ok(Unit))
    /\ UNCHANGED <<cmd, sent, name, found, storeVars, resolveVars, clientVars,
                   truncateVars>>

----------------------------------------------------------------------------
(* Inputs *)

\* the documents a config file can hold: each key present or missing
TomlDocs ==
    {d @@ s : d \in {<<>>} \cup {"default" :> n : n \in Names},
              s \in {<<>>} \cup {"servers" :> m : m \in ServerMaps}}

FileStates == {NoConfigDir, Absent, Unreadable, Malformed} \cup {Text(d) : d \in TomlDocs}

\* the values a caller passes and the environment holds
CliUrls == {"https://cli-url.com"}
CliApiKeys == {"cli-key"}
EnvUrls == {"https://env-url.com"}
EnvApiKeys == {"env-key"}
CliArgs == [server : Option(Names), url : Option(CliUrls), api_key : Option(CliApiKeys)]
Environments ==
    [UNRAID_SERVER : Option(Names), UNRAID_URL : Option(EnvUrls),
     UNRAID_API_KEY : Option(EnvApiKeys)]

\* error messages: the strings over MsgChars of at most MaxMsgLen characters
MsgChars == {"a", "b"}
Messages == UNION {[1..k -> MsgChars] : k \in 0..MaxMsgLen}
ErrorLists == UNION {[1..k -> [message : Messages]] : k \in 0..MaxErrors}
DataValues == {"hello", "ignored"}
Responses == [data : Option(DataValues), errors : Option(ErrorLists)]

\* container aliases and input names
Aliases == {<<"a">>, <<"/", "A">>, <<"/", "/", "a">>, <<"b">>, <<"/">>}
NameLists ==
    {<<>>} \cup {<<a>> : a \in Aliases} \cup {<<a, b>> : a \in Aliases, b \in Aliases}
InputNames == {<<"a">>, <<"A">>, <<"/", "a">>, <<"B">>, <<"c">>, <<>>}
IdTable == <<"id-1", "id-2", "id-3", "id-4">>
\* the list of the containers with the name lists ns; the ids are unique
ContainerList(ns) == [i \in 1..Len(ns) |-> [id |-> IdTable[i], names |-> ns[i]]]

\* the containers of the server a docker command talks to, and the lists it
\* answers the list query with
ContainerTable ==
    <<Container(IdTable[1], <<<<"b">>>>, EXITED),
      Container(IdTable[2], <<<<"/", "a">>>>, RUNNING),
      Container(IdTable[3], <<<<"/", "/", "c">>>>, PAUSED),
      Container(IdTable[4], <<>>, Other("created"))>>
\* the states a container can be in, and the lists with these states
ContainerStates == {RUNNING, PAUSED, EXITED, Other("created"), Other("dead")}
StateList(states) ==
    [i \in 1..Len(states) |-> Container(IdTable[i], <<<<"/", "a">>>>, states[i])]
FetchedLists == {SubSeq(ContainerTable, 1, k) : k \in 0..MaxContainers}
\* the container names given to a docker command
DockerNames == {<<"A">>, <<"c">>}

\* what can come back for a request: no reply, an unparsable one, or an
\* envelope with or without data and errors
EnvelopeErrors == {None, Some(<<>>), Some(<<[message |-> <<"a">>]>>)}
Envelopes(datas) == [data : Option(datas), errors : EnvelopeErrors]
\* the container a mutation returns
Mutated(request) ==
    [id |-> Unwrap(request.id),
     state |-> IF request.query = "StopDockerContainer" THEN EXITED ELSE RUNNING]
RepliesTo(request) ==
    {SendFailed, Unparsable} \cup
    {Envelope(r) : r \in Envelopes(IF request.query = "GetDockerContainers"
                                    THEN FetchedLists ELSE {Mutated(request)})}
\* what can come back for the request that was sent last
Replies == IF sent = <<>> THEN {} ELSE RepliesTo(sent[Len(sent)])

\* the strings handed to truncate: a run of one-byte characters of any
\* length up to MaxStrLen, plain or with one character of two or three bytes
\* in any place
AsciiChars == <<"a", "b", "c">>
WideChars == {"U+00E9", "U+65E5"}
AsciiString(n) == [i \in 1..n |-> AsciiChars[(i % 3) + 1]]
Strings ==
    {AsciiString(n) : n \in 0..MaxStrLen}
    \cup UNION {{[AsciiString(n) EXCEPT ![p] = w] : p \in 1..n, w \in WideChars} :
                    n \in 1..MaxStrLen}
\* the limits list_containers passes for name, image and status
ListingLimits == {29, 39, 19}
\* the limits of the listing and of the test of truncate
MaxLens == ListingLimits \cup {10, 5, 8}

\* the command lines: the subcommand, and the global arguments as clap
\* parsed them (no UNRAID_ variable is set)
ConfigCommands ==
    {[kind |-> "config add", name |-> n, url |-> sc.url, api_key |-> sc.api_key] :
         n \in Names, sc \in ServerConfigs}
    \cup {[kind |-> k, name |-> n] : k \in {"config remove", "config default"}, n \in Names}
    \cup {[kind |-> "config list"]}
DockerCommands ==
    {[kind |-> "list-containers", all |-> b] : b \in BOOLEAN}
    \cup {[kind |-> k, name |-> n] : k \in MutationKinds \cup {"restart"}, n \in DockerNames}
MainArgs ==
    {[server |-> None, url |-> None, api_key |-> None],
     [server |-> None, url |-> Some("https://cli-url.com"), api_key |-> Some("cli-key")]}
NoEnvironment == [UNRAID_SERVER |-> None, UNRAID_URL |-> None, UNRAID_API_KEY |-> None]

----------------------------------------------------------------------------
(* Specifications *)

Idle == "idle"

StoreIdle   == file = Absent /\ config = ConfigDefault /\ call = [op |-> "new"]
ResolveIdle == cli = Idle /\ env = Idle /\ resolved = None
ClientIdle  == response = Idle /\ processed = None
FindIdle    == containers = Idle /\ name = Idle /\ found = None
MainIdle    == cmd = Idle /\ pc = Idle /\ exit = None
DockerIdle  == sent = <<>> /\ replies = <<>> /\ shown = None
TruncateIdle == input = Idle /\ max_len = 0 /\ truncated = None
NoCommand   == MainIdle /\ DockerIdle /\ TruncateIdle

\* The store from the empty configuration: no file, Config::default().  The
\* config commands run in any order.  The methods of Config neither read nor
\* write the file, so a caller's run of them on the Config in memory is
\* followed while no file has been written; SpecConfig runs them from every
\* Config.
Init == StoreIdle /\ ResolveIdle /\ ClientIdle /\ FindIdle /\ NoCommand

Next ==
    \/ \E n \in Names, sc \in ServerConfigs :
           file = Absent /\ AddServer(n, sc.url, sc.api_key)
    \/ \E n \in Names : file = Absent /\ RemoveServer(n)
    \/ \E n \in Names : file = Absent /\ SetDefault(n)
    \/ \E n \in Names, sc \in ServerConfigs, write_ok \in BOOLEAN :
           CmdAddServer(n, sc.url, sc.api_key, write_ok) /\ UNCHANGED mainVars
    \/ \E n \in Names, write_ok \in BOOLEAN :
           CmdRemoveServer(n, write_ok) /\ UNCHANGED mainVars
    \/ \E n \in Names, write_ok \in BOOLEAN :
           CmdSetDefault(n, write_ok) /\ UNCHANGED mainVars
    \/ CmdListServers /\ UNCHANGED mainVars

Spec == Init /\ [][Next]_vars

\* the methods of Config, from any Config
InitConfig ==
    /\ config \in Configs
    /\ file = Absent /\ call = [op |-> "new"]
    /\ ResolveIdle /\ ClientIdle /\ FindIdle /\ NoCommand

NextConfig ==
    \/ \E n \in Names, sc \in ServerConfigs : AddServer(n, sc.url, sc.api_key)
    \/ \E n \in Names : RemoveServer(n)
    \/ \E n \in Names : SetDefault(n)

SpecConfig == InitConfig /\ [][NextConfig]_vars

\* resolve, on any arguments, environment and file
InitResolve ==
    /\ cli \in CliArgs
    /\ env \in Environments
    /\ file \in FileStates
    /\ config = ConfigDefault /\ call = [op |-> "new"]
    /\ resolved = None
    /\ ClientIdle /\ FindIdle /\ NoCommand

NextResolve == Resolve

SpecResolve == InitResolve /\ [][NextResolve]_vars

\* process_response, on any envelope
InitClient ==
    /\ response \in Responses
    /\ processed = None
    /\ StoreIdle /\ ResolveIdle /\ FindIdle /\ NoCommand

NextClient == ProcessResponse

SpecClient == InitClient /\ [][NextClient]_vars

\* find_container_id, on any list and input name
InitFind ==
    /\ \E k \in 0..MaxContainers : \E ns \in [1..k -> NameLists] :
           containers = ContainerList(ns)
    /\ name \in InputNames
    /\ found = None
    /\ StoreIdle /\ ResolveIdle /\ ClientIdle /\ NoCommand

NextFind == FindContainerId

SpecFind == InitFind /\ [][NextFind]_vars

\* filter_by_state, on any list and flag
InitFilter ==
    /\ \E k \in 0..MaxContainers : \E states \in [1..k -> ContainerStates] :
           containers = StateList(states)
    /\ \E show_all \in BOOLEAN : cmd = [kind |-> "list-containers", all |-> show_all]
    /\ shown = None
    /\ name = Idle /\ found = None
    /\ pc = Idle /\ exit = None /\ sent = <<>> /\ replies = <<>>
    /\ StoreIdle /\ ResolveIdle /\ ClientIdle /\ TruncateIdle

NextFilter == FilterByState

SpecFilter == InitFilter /\ [][NextFilter]_vars

\* truncate, on any string and limit
InitTruncate ==
    /\ input \in Strings
    /\ max_len \in MaxLens
    /\ truncated = None
    /\ StoreIdle /\ ResolveIdle /\ ClientIdle /\ FindIdle /\ MainIdle /\ DockerIdle

NextTruncate == Truncate

SpecTruncate == InitTruncate /\ [][NextTruncate]_vars

\* one run of the program: main with any subcommand, on any file
InitMain ==
    /\ file \in FileStates
    /\ cli \in MainArgs
    /\ env = NoEnvironment
    /\ cmd \in ConfigCommands \/ cmd \in DockerCommands
    /\ pc = "main" /\ exit = None
    /\ config = ConfigDefault /\ call = [op |-> "new"]
    /\ resolved = None
    /\ ClientIdle /\ FindIdle /\ DockerIdle /\ TruncateIdle

NextMain ==
    \/ \E write_ok \in BOOLEAN : MainConfigAdd(write_ok)
    \/ \E write_ok \in BOOLEAN : MainConfigRemove(write_ok)
    \/ \E write_ok \in BOOLEAN : MainConfigDefault(write_ok)
    \/ MainConfigList
    \/ \E built \in BOOLEAN : MainDocker(built)
    \/ ResolveContainerIdSend
    \/ \E reply \in Replies : ResolveContainerIdReceive(reply)
    \/ MutateContainerSend
    \/ \E reply \in Replies : MutateContainerReceive(reply)
    \/ RestartStopSend
    \/ \E reply \in Replies : RestartStopReceive(reply)
    \/ RestartStartSend
    \/ \E reply \in Replies : RestartStartReceive(reply)
    \/ ListContainersSend
    \/ \E reply \in Replies : ListContainersReceive(reply)

SpecMain == InitMain /\ [][NextMain]_vars

----------------------------------------------------------------------------
(* Claims *)

\* the default of c is absent or names a profile of c
DefaultNamesProfile(c) == c.default = None \/ Unwrap(c.default) \in DOMAIN c.servers

\* C1: from the empty configuration, after any sequence of add_server,
\* remove_server, set_default and config commands (config add sets the
\* default when the store had no profiles), the default is absent or names
\* a profile that is present, in the Config in memory and in the file.
C1_DefaultNamesExistingProfile ==
    /\ DefaultNamesProfile(config)
    /\ file.kind = "text" => file.valid /\ DefaultNamesProfile(toml_from_str(file.doc))

\* C1's case: config remove has removed the default profile while another
\* profile stays, and the written file holds no default
C1_Witness ==
    /\ call.op = "config remove" /\ call.ret = Ok(Unit) /\ call.writes = 1
    /\ Unwrap(call.before).default = Some(call.name)
    /\ config.default = None /\ DOMAIN config.servers # {}
    /\ file = Text(toml_to_string_pretty(config))

\* C2: set_default(name) with a name that is no key of the profile mapping
\* returns an error and leaves default and mapping as they were; with a
\* name that is a key it succeeds and the default becomes that name.
C2_SetDefaultRejectsUnknown ==
    call.op = "set_default" =>
        IF call.name \in DOMAIN call.before.servers
        THEN call.ret.ok /\ config.default = Some(call.name)
        ELSE /\ ~call.ret.ok
             /\ config.default = call.before.default
             /\ config.servers = call.before.servers

\* C2's case: set_default of an unknown name on a Config that has a default
\* and a profile
C2_Witness ==
    /\ call.op = "set_default" /\ ~call.ret.ok
    /\ call.name \notin DOMAIN call.before.servers
    /\ IsSome(call.before.default) /\ DOMAIN call.before.servers # {}

\* C3: remove_server(name) returns true exactly when the profile existed,
\* deletes only that profile, clears the default when it equalled the
\* removed name and leaves it untouched otherwise.
C3_RemoveServerFrame ==
    call.op = "remove_server" =>
        LET b == call.before
            n == call.name
        IN  /\ call.ret = (n \in DOMAIN b.servers)
            /\ DOMAIN config.servers = DOMAIN b.servers \ {n}
            /\ \A m \in DOMAIN config.servers : config.servers[m] = b.servers[m]
            /\ b.default = Some(n) => config.default = None
            /\ b.default # Some(n) => config.default = b.default

\* C3's case: a profile other than the default one is removed and the
\* default stays
C3_Witness ==
    /\ call.op = "remove_server" /\ call.ret = TRUE
    /\ IsSome(call.before.default) /\ call.before.default # Some(call.name)
    /\ Unwrap(call.before.default) \in DOMAIN call.before.servers
    /\ config.default = call.before.default

\* the call of resolve that has returned: its arguments and its outcome
Args == Unwrap(resolved).args
Outcome == Unwrap(resolved).ret

CliPair == IsSome(Args.url) /\ IsSome(Args.api_key)
EnvPair == IsSome(env.UNRAID_URL) /\ IsSome(env.UNRAID_API_KEY)

\* the file holds a configuration: it is absent or it parses
StoreLoads == file = Absent \/ (file.kind = "text" /\ file.valid)
\* the configuration the file holds: none when absent, else its keys
StoredDefault ==
    IF file # Absent /\ "default" \in DOMAIN file.doc THEN Some(file.doc["default"])
    ELSE None
StoredServers ==
    IF file # Absent /\ "servers" \in DOMAIN file.doc THEN file.doc["servers"]
    ELSE <<>>
\* the profile name resolve selects: the server argument, else
\* UNRAID_SERVER, else the stored default
SelectedName ==
    IF IsSome(Args.server) THEN Args.server
    ELSE IF IsSome(env.UNRAID_SERVER) THEN env.UNRAID_SERVER
    ELSE StoredDefault

\* C4: with both the url and the api-key argument given, resolve succeeds
\* with exactly that pair, whatever the server argument, the environment
\* and the config file are.
C4_CliPairVerbatim ==
    (resolved # None /\ CliPair) =>
        Outcome = Ok([url |-> Args.url[1], api_key |-> Args.api_key[1]])

\* C4's case: both arguments given, the environment pair set as well, and
\* a config file that does not parse
C4_Witness ==
    /\ resolved # None /\ CliPair /\ EnvPair
    /\ IsSome(env.UNRAID_SERVER) /\ file = Malformed
    /\ Outcome.ok

\* C5: with the environment url and api-key both set and not both
\* arguments given, resolve returns the environment pair, a url argument
\* alone replacing only the url and an api-key argument alone only the key.
C5_EnvPairWithOverride ==
    (resolved # None /\ EnvPair /\ ~CliPair) =>
        Outcome = Ok([url     |-> IF IsSome(Args.url) THEN Args.url[1]
                                  ELSE env.UNRAID_URL[1],
                      api_key |-> IF IsSome(Args.api_key) THEN Args.api_key[1]
                                  ELSE env.UNRAID_API_KEY[1]])

\* C5's case: the url argument alone over a complete environment pair
C5_Witness ==
    /\ resolved # None /\ EnvPair
    /\ IsSome(Args.url) /\ ~IsSome(Args.api_key)
    /\ Outcome.ok /\ Outcome.value.url = Args.url[1]
    /\ Outcome.value.api_key = env.UNRAID_API_KEY[1]

\* C6: with a complete environment pair the outcome of resolve is the same
\* for every content of the config file, the file is never loaded, and so
\* a file that does not parse cannot make resolve fail.
C6_EnvPairIgnoresStore ==
    (resolved # None /\ EnvPair) =>
        /\ ~Unwrap(resolved).loaded
        /\ Outcome.ok
        /\ \A f \in FileStates :
               resolve(Args.server, Args.url, Args.api_key, env, f)
                   = [ret |-> Outcome, loaded |-> FALSE]

\* C6's case: the environment pair alone, with a file that does not parse
C6_Witness ==
    /\ resolved # None /\ EnvPair /\ ~IsSome(Args.url) /\ ~IsSome(Args.api_key)
    /\ file = Malformed
    /\ Outcome.ok /\ ~Unwrap(resolved).loaded

\* C7: with neither pair complete and a profile under the selected name
\* (server argument, else UNRAID_SERVER, else stored default), resolve
\* returns that profile's url and api_key, a url or api-key argument
\* replacing just its field; UNRAID_URL or UNRAID_API_KEY set without its
\* partner changes nothing.
C7_ProfileSelection ==
    (resolved # None /\ ~CliPair /\ ~EnvPair /\ StoreLoads) =>
        /\ (IsSome(SelectedName) /\ SelectedName[1] \in DOMAIN StoredServers) =>
               Outcome = Ok([url     |-> IF IsSome(Args.url) THEN Args.url[1]
                                         ELSE StoredServers[SelectedName[1]].url,
                             api_key |-> IF IsSome(Args.api_key) THEN Args.api_key[1]
                                         ELSE StoredServers[SelectedName[1]].api_key])
        /\ \A e \in Environments :
               (/\ e.UNRAID_SERVER = env.UNRAID_SERVER
                /\ ~(IsSome(e.UNRAID_URL) /\ IsSome(e.UNRAID_API_KEY))) =>
                   resolve(Args.server, Args.url, Args.api_key, e, file).ret = Outcome

\* C7's case: no server argument, UNRAID_SERVER names a profile other than
\* the stored default, both are profiles with different values, the url
\* argument is given and UNRAID_API_KEY is set without UNRAID_URL
C7_Witness ==
    /\ resolved # None /\ StoreLoads /\ file # Absent
    /\ ~IsSome(Args.server) /\ IsSome(env.UNRAID_SERVER)
    /\ IsSome(StoredDefault) /\ StoredDefault # env.UNRAID_SERVER
    /\ {StoredDefault[1], env.UNRAID_SERVER[1]} \subseteq DOMAIN StoredServers
    /\ StoredServers[StoredDefault[1]] # StoredServers[env.UNRAID_SERVER[1]]
    /\ IsSome(Args.url) /\ ~IsSome(Args.api_key)
    /\ ~IsSome(env.UNRAID_URL) /\ IsSome(env.UNRAID_API_KEY)
    /\ Outcome.ok
    /\ Outcome.value.api_key = StoredServers[env.UNRAID_SERVER[1]].api_key

\* C8: with neither pair complete and the selected name absent or no key
\* of the profile mapping, resolve fails with the 'no server configured'
\* error; an absent file reads as the empty configuration, so the failure
\* is that error and not one of file access; a server name that matches no
\* profile does not fall back to the stored default.
C8_NoServerConfigured ==
    (resolved # None /\ ~CliPair /\ ~EnvPair /\ StoreLoads) =>
        /\ (~IsSome(SelectedName) \/ SelectedName[1] \notin DOMAIN StoredServers) =>
               Outcome = Err(NoServerConfigured)
        /\ file = Absent => Outcome = Err(NoServerConfigured)

\* C8's case: the server argument names no profile while the stored
\* default names one
C8_Witness ==
    /\ resolved # None /\ ~CliPair /\ ~EnvPair /\ StoreLoads
    /\ IsSome(Args.server) /\ Args.server[1] \notin DOMAIN StoredServers
    /\ IsSome(StoredDefault) /\ StoredDefault[1] \in DOMAIN StoredServers
    /\ Outcome = Err(NoServerConfigured)

\* the messages of the envelope's errors, in order
ErrorMessages ==
    [i \in 1..Len(Unwrap(response.errors)) |-> Unwrap(response.errors)[i].message]

\* where message i starts in the joined text: after the messages before it
\* and one two-character separator for each
RECURSIVE StartOf(_, _)
StartOf(msgs, i) ==
    IF i = 1 THEN 0 ELSE StartOf(msgs, i - 1) + Len(msgs[i - 1]) + 2

\* text is the messages msgs in order, with ", " between neighbours and
\* nothing else
IsJoined(text, msgs) ==
    /\ Len(text) = StartOf(msgs, Len(msgs)) + Len(msgs[Len(msgs)])
    /\ \A i \in 1..Len(msgs) :
           SubSeq(text, StartOf(msgs, i) + 1, StartOf(msgs, i) + Len(msgs[i])) = msgs[i]
    /\ \A i \in 1..(Len(msgs) - 1) :
           /\ text[StartOf(msgs, i) + Len(msgs[i]) + 1] = ","
           /\ text[StartOf(msgs, i) + Len(msgs[i]) + 2] = " "

\* C9: an envelope with a non-empty errors list decodes to a GraphQL error
\* whose message holds every error message, in order, joined by ", ", also
\* when data is present; with errors absent or empty it decodes to the
\* data when data is present and to the no-data error when it is absent.
C9_EnvelopeDecoding ==
    processed # None =>
        LET r == Unwrap(processed) IN
        IF IsSome(response.errors) /\ Len(Unwrap(response.errors)) > 0
        THEN /\ ~r.ok
             /\ Len(r.error) >= Len(GraphQLErrorsPrefix)
             /\ SubSeq(r.error, 1, Len(GraphQLErrorsPrefix)) = GraphQLErrorsPrefix
             /\ IsJoined(SubSeq(r.error, Len(GraphQLErrorsPrefix) + 1, Len(r.error)),
                         ErrorMessages)
        ELSE IF IsSome(response.data) THEN r = Ok(response.data[1])
        ELSE r = Err(NoDataReturned)

\* C9's case: data present together with two errors of different messages
C9_Witness ==
    /\ processed # None /\ IsSome(response.data) /\ IsSome(response.errors)
    /\ Len(Unwrap(response.errors)) = 2
    /\ ErrorMessages[1] # ErrorMessages[2] /\ ErrorMessages[1] # <<>>
    /\ ~Unwrap(processed).ok

\* two strings are equal up to the case of their characters
EqualIgnoringCase(a, b) ==
    Len(a) = Len(b) /\ \A i \in 1..Len(a) : LowerChar(a[i]) = LowerChar(b[i])

\* the alias without its one leading '/', if it has one
WithoutLeadingSlash(alias) ==
    IF alias # <<>> /\ alias[1] = "/" THEN Tail(alias) ELSE alias

\* the number of '/' the alias starts with
LeadingSlashes(alias) ==
    CHOOSE k \in 0..Len(alias) :
        /\ \A i \in 1..k : alias[i] = "/"
        /\ k < Len(alias) => alias[k + 1] # "/"

\* the alias without every '/' it starts with
WithoutLeadingSlashes(alias) == SubSeq(alias, LeadingSlashes(alias) + 1, Len(alias))

\* what find_container_id returns when Clean(alias) is what is compared:
\* the id of the first container with a matching alias, else not found
FindsFirstMatch(Clean(_)) ==
    found # None =>
        LET Matching(c) ==
                \E j \in 1..Len(c.names) : EqualIgnoringCase(Clean(c.names[j]), name)
            hits == {i \in 1..Len(containers) : Matching(containers[i])}
        IN  IF hits = {} THEN Unwrap(found) = Err(ContainerNotFound(name))
            ELSE \E i \in hits : /\ \A k \in hits : i <= k
                                 /\ Unwrap(found) = Ok(containers[i].id)

\* C10 as stated: find_container_id returns the id of the first container,
\* in list order, with any alias equal to the input name, compared without
\* regard to case after the leading '/' is stripped from the alias; it
\* fails with not found, naming the input, exactly when there is none.
C10_AsStated == FindsFirstMatch(WithoutLeadingSlash)

\* C10 amended: the same, with every leading '/' stripped from the alias.
C10_FindFirstMatch == FindsFirstMatch(WithoutLeadingSlashes)

\* C10's case: the first container has no matching alias, the second
\* matches by its second alias, which differs in case and carries a '/'
C10_Witness ==
    /\ found # None /\ Len(containers) = 2
    /\ name = <<"a">>
    /\ containers[1].names = <<<<"b">>>>
    /\ containers[2].names = <<<<"b">>, <<"/", "A">>>>
    /\ Unwrap(found) = Ok(containers[2].id)

\* the id the name of the command resolves to in the answer to the first
\* request, as a Result
ResolvedId == find_container_id(replies[1].value, cmd.name)
\* the name resolution has failed: the list request failed or no container matched
ResolutionFailed == Len(replies) >= 1 /\ (~replies[1].ok \/ ~ResolvedId.ok)
\* the requests sent and not yet answered
InFlight == Len(sent) - Len(replies)

\* C11: restart sends the list query once, then the stop for the resolved
\* id, and the start for the same id only after the stop has returned
\* successfully; when the resolution or the stop fails no start is sent;
\* when the stop succeeds and the start fails, that failure is returned and
\* the stop stays the last mutation: nothing is sent after the start.
C11_RestartStopThenStart ==
    cmd.kind = "restart" =>
        /\ Len(sent) <= 3
        /\ Len(sent) >= 1 => sent[1] = GetDockerContainers
        /\ Len(sent) >= 2 =>
               /\ replies[1].ok /\ ResolvedId.ok
               /\ sent[2] = StopDockerContainer(ResolvedId.value)
        /\ Len(sent) >= 3 =>
               /\ Len(replies) >= 2 /\ replies[2].ok
               /\ sent[3] = StartDockerContainer(ResolvedId.value)
        /\ ResolutionFailed => Len(sent) = 1 /\ pc = "exit" /\ ~Unwrap(exit).ok
        /\ Len(replies) >= 2 /\ ~replies[2].ok =>
               Len(sent) = 2 /\ pc = "exit" /\ exit = Some(replies[2])
        /\ Len(replies) >= 3 /\ ~replies[3].ok =>
               Len(sent) = 3 /\ pc = "exit" /\ exit = Some(replies[3])

\* C11's case: the stop has succeeded, the start has failed and restart has
\* returned
C11_Witness ==
    /\ cmd.kind = "restart" /\ pc = "exit"
    /\ Len(replies) = 3 /\ replies[2].ok /\ ~replies[3].ok
    /\ sent[2].query = "StopDockerContainer" /\ sent[3].query = "StartDockerContainer"

\* the mutation of a subcommand
QueryOf(kind) ==
    CASE kind = "start" -> "StartDockerContainer"
      [] kind = "stop" -> "StopDockerContainer"
      [] kind = "update" -> "UpdateDockerContainer"

\* C12: start, stop and update send the list query first and then, when the
\* name resolved, exactly one mutation, their own, carrying the resolved id;
\* when the resolution fails no mutation is sent; and no docker command
\* sends a request twice.
C12_ResolveThenOneMutation ==
    /\ cmd.kind \in MutationKinds =>
           /\ Len(sent) <= 2
           /\ Len(sent) >= 1 => sent[1] = GetDockerContainers
           /\ Len(sent) = 2 =>
                  /\ replies[1].ok /\ ResolvedId.ok
                  /\ sent[2] = Request(QueryOf(cmd.kind), Some(ResolvedId.value))
           /\ ResolutionFailed => Len(sent) = 1 /\ pc = "exit" /\ ~Unwrap(exit).ok
           /\ pc = "exit" /\ Len(replies) >= 1 /\ ~ResolutionFailed =>
                  Len(sent) = 2 /\ Len(replies) = 2
    /\ \A i, j \in 1..Len(sent) : i # j => sent[i] # sent[j]

\* C12's case: a stop whose name resolved has sent its mutation and returned
C12_Witness ==
    /\ cmd.kind = "stop" /\ pc = "exit" /\ exit = Some(Ok(Unit))
    /\ Len(sent) = 2 /\ sent[2].query = "StopDockerContainer"

\* C13 as stated: at most one request per command, two for restart, none
\* for a config command, and never two in flight.
C13_AsStated ==
    /\ cmd.kind \in ConfigKinds => Len(sent) = 0
    /\ cmd.kind \in MutationKinds \cup {"list-containers"} => Len(sent) <= 1
    /\ cmd.kind = "restart" => Len(sent) <= 2
    /\ InFlight \in {0, 1}

\* C13: a config command sends no request, list-containers at most one,
\* start, stop and update at most two (the list query, then the mutation)
\* and restart at most three (the list query, the stop, the start); a
\* request is sent only when every earlier one has been answered.
C13_RoundTrips ==
    /\ cmd.kind \in ConfigKinds => Len(sent) = 0
    /\ cmd.kind = "list-containers" => Len(sent) <= 1
    /\ cmd.kind \in MutationKinds => Len(sent) <= 2
    /\ cmd.kind = "restart" => Len(sent) <= 3
    /\ InFlight \in {0, 1}
    /\ pc = "exit" => InFlight = 0

\* C13's case: a restart that went through, with its three requests
C13_Witness ==
    /\ cmd.kind = "restart" /\ pc = "exit" /\ exit = Some(Ok(Unit))
    /\ Len(sent) = 3 /\ Len(replies) = 3

\* the positions of the running containers in the list
RunningAt == {i \in 1..Len(containers) : containers[i].state = RUNNING}
\* the j-th of these positions, counted from the front
NthRunning(j) == CHOOSE i \in RunningAt : Cardinality({k \in RunningAt : k <= i}) = j

\* C14: with the all flag filter_by_state returns the list as it is;
\* without it, exactly the running containers in their order in the list,
\* which is the empty list when none is running.
C14_FilterByState ==
    shown # None =>
        IF cmd.all THEN Unwrap(shown) = containers
        ELSE /\ Len(Unwrap(shown)) = Cardinality(RunningAt)
             /\ \A j \in 1..Len(Unwrap(shown)) : Unwrap(shown)[j] = containers[NthRunning(j)]
             /\ RunningAt = {} => Unwrap(shown) = <<>>

\* C14's case: without the flag, a running container behind one that is
\* not running is all that is returned
C14_Witness ==
    /\ shown # None /\ ~cmd.all
    /\ Len(containers) = 2
    /\ containers[1].state = PAUSED /\ containers[2].state = RUNNING
    /\ Unwrap(shown) = <<containers[2]>>

\* C15 as stated, with lengths counted as str::len counts them: truncate
\* returns s as it is when its length is at most max_len, and otherwise the
\* first max_len - 3 of s followed by "...", of length exactly max_len; with
\* the limits of the listing the result is never longer than the limit.
C15_AsStated ==
    truncated # None =>
        /\ ~Unwrap(truncated).panicked
        /\ IF str_len(input) <= max_len THEN Unwrap(truncated).value = input
           ELSE /\ str_len(Unwrap(truncated).value) = max_len
                /\ \E k \in 0..Len(input) :
                       /\ str_len(SubSeq(input, 1, k)) = max_len - 3
                       /\ Unwrap(truncated).value = SubSeq(input, 1, k) \o Ellipsis
        /\ max_len \in ListingLimits => str_len(Unwrap(truncated).value) <= max_len

\* a config command has run and Config::load gave it the stored configuration
CommandLoaded == call.op \in ConfigKinds /\ load(call.file_before).ok
\* the configuration the store held before the command
StoredBefore == load(call.file_before).value

\* C16: config add leaves the named profile with the given url and key,
\* whether the name was there or not, and every other profile as it was;
\* the default becomes the added name exactly when the store held no
\* profile before, and stays what it was (absent too) otherwise; when the
\* command succeeds this configuration is what the store holds.
C16_ConfigAddUpserts ==
    call.op = "config add" /\ CommandLoaded =>
        /\ DOMAIN config.servers = DOMAIN StoredBefore.servers \cup {call.name}
        /\ config.servers[call.name] = ServerConfig(call.url, call.api_key)
        /\ \A n \in DOMAIN StoredBefore.servers \ {call.name} :
               config.servers[n] = StoredBefore.servers[n]
        /\ config.default = IF DOMAIN StoredBefore.servers = {} THEN Some(call.name)
                            ELSE StoredBefore.default
        /\ call.ret.ok => load(file) = Ok(config)

\* C16's case: a profile that is stored with another url is added again
\* to a store with a second profile and no default
C16_Witness ==
    /\ call.op = "config add" /\ CommandLoaded /\ call.ret.ok
    /\ call.name \in DOMAIN StoredBefore.servers
    /\ StoredBefore.servers[call.name] # ServerConfig(call.url, call.api_key)
    /\ DOMAIN StoredBefore.servers # {call.name}
    /\ StoredBefore.default = None /\ config.default = None
    /\ load(file) = Ok(config)

\* the config command changes the configuration it loaded: an add, or a
\* default or remove of a name that has a profile
CommandMutates ==
    /\ CommandLoaded
    /\ \/ call.op = "config add"
       \/ /\ call.op \in {"config default", "config remove"}
          /\ call.name \in DOMAIN StoredBefore.servers

\* C17: a config command that mutates the configuration writes the file
\* once, and the file then holds the whole updated configuration (or, when
\* the write fails, what it held); every other config command writes
\* nothing and leaves the file as it was; no step of a docker command
\* changes the file.
C17_OnlyMutatingCommandsWrite ==
    /\ [](call.op \in ConfigKinds =>
             IF CommandMutates
             THEN /\ call.writes = 1
                  /\ call.ret.ok => file.kind = "text" /\ load(file) = Ok(config)
                  /\ ~call.ret.ok => file = call.file_before
             ELSE call.writes = 0 /\ file = call.file_before)
    /\ [][cmd.kind \in DockerKinds => file' = file]_vars

\* C17's case: config default with a name that has no profile has failed
\* and the file, which holds profiles, is as it was
C17_Witness ==
    /\ call.op = "config default" /\ CommandLoaded /\ ~CommandMutates
    /\ DOMAIN StoredBefore.servers # {}
    /\ ~call.ret.ok /\ call.writes = 0
    /\ file = call.file_before

====
